---- MODULE Spec2Model ----
(***************************************************************************)
(* Ganjino admin console: the token store, the authenticated request       *)
(* pipeline (authorizedRequest / refreshAccessToken), authApi.logout,      *)
(* ThemeToggle, and the App component: its sign-in, sign-out, the reads    *)
(* of its five queries, its mutation handlers and its list controls.       *)
(*                                                                         *)
(* Four specifications are given.  Spec is the session life of the App     *)
(* component driving the api module: sign-in, sign-out and the             *)
(* current-user read while tokens expire.  SpecApi is the api module       *)
(* alone (lib/api.ts), with ThemeToggle, under the most general client of  *)
(* its exports: tokenStore.setTokens, tokenStore.clear, authApi.logout     *)
(* and any privileged call may be invoked in any order.  SpecDashboard is  *)
(* the loaded dashboard of an admin or super admin whose session stays     *)
(* valid: the reads, the mutations, the filters, paging and Refresh.       *)
(* SpecFilters is the list controls across sessions: filtering, paging,    *)
(* sign-out and sign-in again.                                             *)
(***************************************************************************)
EXTENDS Integers, Sequences, FiniteSets, TLC

(* ---------------------------------------------------------------- bounds *)

\* Number of authorizedRequest invocations that can be in flight together.
MaxCalls == 2
\* Number of authorizedRequest invocations the App has in flight together.
MaxAppCalls == 1
\* Number of credential pairs the backend issues (sign-ins plus refreshes).
MaxIssued == 3
\* Number of POST /auth/logout notifications that can be in flight together.
MaxLogouts == 1

\* Number of user accounts the dashboard lists.
MaxUsers == 2
\* Number of account mutations the backend applies.
MaxMutations == 1
\* Number of pages the backend reports for the user list.
MaxPage == 2
\* Number of user-list parameter sets the cache holds a query for.
MaxUserLists == 3
\* Number of clicks and submits the dashboard handles.
MaxClicks == 2

Slots == 1..MaxCalls
Users == 1..MaxUsers
AppSlots == 1..MaxAppCalls

(* ------------------------------------------------------------- constants *)

\* localStorage.getItem gives null for a missing key.
NoToken == 0
Tokens == 1..MaxIssued

Roles == {"user", "admin", "super_admin"}

\* What an axios call can reject with: a non-2xx status, or no response at all.
AxiosErrors == {"E401", "E500", "ENETWORK", "ETIMEOUT"}
Responses == {"ok"} \cup AxiosErrors

\* error.response?.status of an axios rejection (0: there is no response).
Status(e) ==
  CASE e = "E401" -> 401
    [] e = "E500" -> 500
    [] OTHER -> 0

\* The privileged calls: the reads authApi.getMe, adminApi.getStats,
\* getUsersWithFilters, getSecurityInsights, getUserDetails and the three
\* mutations.
QueryOps == {"me", "stats", "users", "security", "details"}
MutationOps == {"toggle", "promote", "demote"}
Ops == QueryOps \cup MutationOps

\* The calls the client of SpecApi makes: the pipeline never reads the request
\* configuration, so one privileged call stands for all of them.
ApiOps == {"stats"}

NoPair == [accessToken |-> NoToken, refreshToken |-> NoToken]

\* selectedUserId is null until a row is clicked.
NoUser == 0

\* The user-list parameters after useState's initial values.
DefaultParams ==
  [page |-> 1, search |-> "", role |-> "all", status |-> "all",
   sortBy |-> "createdAt", sortOrder |-> "desc"]

\* The values the user-list parameters are drawn from: the options of the
\* selects, and the search texts typed (after trim).
Searches == {"", "a"}
RoleFilters == {"all", "user", "admin", "super_admin"}
StatusFilters == {"all", "active", "inactive"}
SortBys == {"createdAt", "name", "email"}
SortOrders == {"asc", "desc"}

\* ThemeMode, and what localStorage.getItem gives for a missing key.
ThemeModes == {"light", "dark"}
NoTheme == "none"

\* signInMutation at rest: pc is "pending" while POST /auth/signin is awaited
\* and "answered" once the backend has issued a pair for a user of some role.
SignInIdle == [pc |-> "idle", role |-> "none", pair |-> NoPair]
\* A network call in flight: its kind, the token it carries, the backend's
\* account data version when it was sent (since), and for a mutation whether
\* the backend has applied it.
NoRequest == [kind |-> "none", token |-> NoToken, since |-> 0, applied |-> FALSE]

\* A response body: data is what the App reads of it (the role of
\* /auth/me, "data" for the others) and ver the version of the backend's
\* account data it was computed from.
NoPayload == [data |-> "none", ver |-> 0]

\* A query key is an array; NoKey stands for no query.
NoKey == <<>>
MeKey == <<"auth-me">>
StatsKey == <<"admin-stats">>
SecurityKey == <<"admin-security-insights">>

\* Faulty variant of UsersKey: the sort order is left out of the key.
UsersKeyDroppingSortOrder(p) ==
  <<"admin-users", p.page, p.search, p.role, p.status, p.sortBy>>

UsersKey(p) ==
  <<"admin-users", p.page, p.search, p.role, p.status, p.sortBy, p.sortOrder>>

DetailsKey(u) == <<"admin-user-details", u>>

\* One authorizedRequest invocation.  op and arg are its request (arg: the
\* query key of a read, the user id of a mutation), att tells whether a query
\* of the cache still waits for it, inflight is the network call it awaits
\* (with the token it carries), sent the kinds of network call it has made,
\* resps the responses it has got, refreshed the pair the backend answers the
\* refresh exchange with, outcome the settled promise ("ok" or the error it
\* rejects with) and result the data it resolves to.
FreeCall ==
  [pc |-> "free", op |-> "none", arg |-> NoKey, att |-> FALSE,
   inflight |-> NoRequest, sent |-> <<>>, resps |-> <<>>, refreshed |-> NoPair,
   outcome |-> "none", result |-> NoPayload]

VARIABLES
  accessToken,    \* localStorage[ACCESS_TOKEN_KEY]
  refreshToken,   \* localStorage[REFRESH_TOKEN_KEY]
  issued,         \* backend: number of credential pairs issued so far
  calls,          \* the authorizedRequest invocations, by slot
  logoutPosts,    \* authApi.logout invocations awaiting POST /auth/logout
  signIn,         \* signInMutation: its state and the backend's answer
  isAuthed,       \* App state
  authError,      \* App state
  actionError,    \* App state
  cache,          \* the query client's cache, by query key
  themeStored,    \* localStorage[THEME_KEY]
  theme,          \* ThemeToggle state
  themeApplied,   \* the theme of document.documentElement's class list
  version,        \* backend: number of account mutations applied so far
  params,         \* App state: page, search, roleFilter, statusFilter, sortBy, sortOrder
  selectedUserId, \* App state
  acked,          \* by user id: the newest mutation the App has seen succeed
  clicks          \* number of clicks and submits the dashboard has handled

apiVars == <<themeStored, accessToken, refreshToken, issued, version, calls, logoutPosts>>
themeVars == <<theme, themeApplied>>
viewVars == <<params, selectedUserId>>
appVars == <<signIn, isAuthed, authError, actionError, cache,
             theme, themeApplied, params, selectedUserId, acked, clicks>>
vars == <<themeStored, accessToken, refreshToken, issued, version, calls,
          logoutPosts, signIn, isAuthed, authError, actionError, cache,
          theme, themeApplied, params, selectedUserId, acked, clicks>>

(* ------------------------------------------------------------ tokenStore *)

\* Faulty variant of setTokens: only the access token is written.
setTokensAccessOnly(a, r) ==
  /\ accessToken' = a
  /\ UNCHANGED <<themeStored, refreshToken>>

setTokens(a, r) ==
  /\ accessToken' = a
  /\ refreshToken' = r
  /\ UNCHANGED themeStored

clear ==
  /\ accessToken' = NoToken
  /\ refreshToken' = NoToken
  /\ UNCHANGED themeStored

(* -------------------------------------------- authenticated request pipeline *)

\* Faulty variant of isUnauthorizedError: any response with a status counts.
isUnauthorizedErrorAnyStatus(e) == e \in AxiosErrors /\ Status(e) # 0

isUnauthorizedError(e) == e \in AxiosErrors /\ Status(e) = 401

\* What the backend answers a successful call with: a read is computed
\* from the account data as it is at some moment between the request and the
\* response, a mutation answers with the data it has produced.
Payloads(rec) ==
  {[data |-> d, ver |-> v] :
     d \in (IF rec.op = "me" THEN Roles ELSE {"data"}),
     v \in (IF rec.op \in MutationOps
              THEN {rec.inflight.since}
              ELSE rec.inflight.since .. version)}

\* The promise settles: nothing is in flight and the locals are gone.
Settled(rec, outcome, result) ==
  [rec EXCEPT !.pc = "done", !.inflight = NoRequest, !.refreshed = NoPair,
              !.outcome = outcome, !.result = result]

\* A promise continuation runs to completion before any other event is
\* handled: while a call has settled and its caller has not yet taken the
\* result, nothing else happens.
NoneSettled == \A c \in Slots : calls[c].pc # "done"

Request(rec, kind, token) ==
  [rec EXCEPT !.inflight = [kind |-> kind, token |-> token,
                            since |-> version, applied |-> FALSE],
              !.sent = Append(@, kind)]

\* Faulty variant of refreshAccessToken: the missing refresh token is not checked.
refreshAccessTokenUnchecked(rec) ==
  Request([rec EXCEPT !.pc = "refresh"], "refresh", refreshToken)

\* refreshAccessToken up to its await: the refresh token is read, and either the
\* call throws or POST /auth/refresh is sent with it.
refreshAccessToken(rec) ==
  IF refreshToken = NoToken
    THEN Settled(rec, "MissingRefreshToken", NoPayload)
    ELSE Request([rec EXCEPT !.pc = "refresh"], "refresh", refreshToken)

\* Slots carry no identity: a new invocation takes the lowest free one.
FreeSlot(c) ==
  /\ calls[c].pc = "free"
  /\ \A d \in Slots : d < c => calls[d].pc # "free"

\* Faulty variant of authorizedRequest: the missing access token is not checked.
authorizedRequestUnchecked(c, op, arg, att) ==
  /\ FreeSlot(c)
  /\ calls' = [calls EXCEPT ![c] =
       Request([FreeCall EXCEPT !.pc = "original", !.op = op, !.arg = arg,
                                !.att = att],
               "original", accessToken)]
  /\ UNCHANGED <<themeStored, accessToken, refreshToken, issued, version, logoutPosts>>

\* authorizedRequest up to its first await.
authorizedRequest(c, op, arg, att) ==
  /\ FreeSlot(c)
  /\ calls' = [calls EXCEPT ![c] =
       IF accessToken = NoToken
         THEN Settled([FreeCall EXCEPT !.op = op, !.arg = arg, !.att = att],
                      "MissingAccessToken", NoPayload)
         ELSE Request([FreeCall EXCEPT !.pc = "original", !.op = op,
                                       !.arg = arg, !.att = att],
                      "original", accessToken)]
  /\ UNCHANGED <<themeStored, accessToken, refreshToken, issued, version, logoutPosts>>

\* The first attempt's response arrives: return, rethrow, or start the refresh.
OriginalResponse(c, r, payload) ==
  /\ calls[c].pc = "original"
  /\ LET rec == [calls[c] EXCEPT !.resps = Append(@, r)] IN
       calls' = [calls EXCEPT ![c] =
         IF r = "ok" THEN Settled(rec, "ok", payload)
         ELSE IF ~isUnauthorizedError(r) THEN Settled(rec, r, NoPayload)
         ELSE refreshAccessToken(rec)]
  /\ UNCHANGED <<themeStored, accessToken, refreshToken, issued, version, logoutPosts>>

\* The backend accepts the refresh token and issues a new pair; its answer is
\* now on its way to the client.
BackendRefresh(c) ==
  /\ calls[c].pc = "refresh"
  /\ calls[c].inflight.kind = "refresh"
  /\ issued < MaxIssued
  /\ issued' = issued + 1
  /\ UNCHANGED version
  /\ calls' = [calls EXCEPT ![c] =
       [@ EXCEPT !.inflight = [@ EXCEPT !.kind = "refresh-answer", !.token = NoToken],
                 !.refreshed = [accessToken |-> issued + 1,
                                refreshToken |-> issued + 1]]]
  /\ UNCHANGED <<themeStored, accessToken, refreshToken, logoutPosts>>

\* POST /auth/refresh settles: on success the new pair is stored and the
\* request is sent again with the new access token; a failure is rethrown.
RefreshResponse(c, r) ==
  /\ calls[c].pc = "refresh"
  /\ LET rec == [calls[c] EXCEPT !.resps = Append(@, r)]
         data == calls[c].refreshed IN
       IF r = "ok"
         THEN /\ calls[c].inflight.kind = "refresh-answer"
              /\ setTokens(data.accessToken, data.refreshToken)
              /\ calls' = [calls EXCEPT ![c] =
                   Request([rec EXCEPT !.pc = "retry"], "retry", data.accessToken)]
         ELSE /\ calls' = [calls EXCEPT ![c] = Settled(rec, r, NoPayload)]
              /\ UNCHANGED <<themeStored, accessToken, refreshToken>>
  /\ UNCHANGED <<issued, version, logoutPosts>>

\* Faulty variant of RetryResponse: a 401 on the retry starts another refresh.
RetryResponseRefreshAgain(c, r, payload) ==
  /\ calls[c].pc = "retry"
  /\ LET rec == [calls[c] EXCEPT !.resps = Append(@, r)] IN
       calls' = [calls EXCEPT ![c] =
         IF r = "ok" THEN Settled(rec, "ok", payload)
         ELSE IF ~isUnauthorizedError(r) THEN Settled(rec, r, NoPayload)
         ELSE refreshAccessToken(rec)]
  /\ UNCHANGED <<themeStored, accessToken, refreshToken, issued, version, logoutPosts>>

\* The retry's response arrives: return its data or rethrow its error.
RetryResponse(c, r, payload) ==
  /\ calls[c].pc = "retry"
  /\ LET rec == [calls[c] EXCEPT !.resps = Append(@, r)] IN
       calls' = [calls EXCEPT ![c] =
         IF r = "ok" THEN Settled(rec, "ok", payload) ELSE Settled(rec, r, NoPayload)]
  /\ UNCHANGED <<themeStored, accessToken, refreshToken, issued, version, logoutPosts>>

(* ----------------------------------------------------------- authApi.logout *)

\* authApi.logout up to its await: with no refresh token nothing is posted and
\* the tokens are cleared at once.
logoutStart ==
  IF refreshToken # NoToken
    THEN /\ logoutPosts < MaxLogouts
         /\ logoutPosts' = logoutPosts + 1
         /\ UNCHANGED <<themeStored, accessToken, refreshToken>>
    ELSE /\ clear
         /\ UNCHANGED logoutPosts

\* POST /auth/logout settles: the tokens are cleared after a success; a
\* rejection leaves authApi.logout at the await and its promise rejects.
logoutResponse(r) ==
  /\ logoutPosts > 0
  /\ logoutPosts' = logoutPosts - 1
  /\ IF r = "ok" THEN clear ELSE UNCHANGED <<themeStored, accessToken, refreshToken>>

(* -------------------------------------------------------------- network steps *)

\* The backend applies a mutation that has reached it: the account data
\* changes, and the answer will carry the data it produced.
BackendApplies(c) ==
  /\ NoneSettled
  /\ calls[c].op \in MutationOps
  /\ calls[c].inflight.kind \in {"original", "retry"}
  /\ ~calls[c].inflight.applied
  /\ version < MaxMutations
  /\ version' = version + 1
  /\ calls' = [calls EXCEPT ![c].inflight =
       [@ EXCEPT !.applied = TRUE, !.since = version + 1]]
  /\ UNCHANGED <<themeStored, accessToken, refreshToken, issued, logoutPosts>>
  /\ UNCHANGED appVars

\* The backend answers a mutation with success only once it has applied it.
Answerable(rec, r) ==
  (r = "ok" /\ rec.op \in MutationOps) => rec.inflight.applied

ReceiveOriginal(c) ==
  /\ NoneSettled
  /\ \E r \in Responses : \E payload \in Payloads(calls[c]) :
       /\ Answerable(calls[c], r)
       /\ OriginalResponse(c, r, payload)
  /\ UNCHANGED appVars

AnswerRefresh(c) ==
  /\ NoneSettled
  /\ BackendRefresh(c)
  /\ UNCHANGED appVars

ReceiveRefresh(c) ==
  /\ NoneSettled
  /\ \E r \in Responses : RefreshResponse(c, r)
  /\ UNCHANGED appVars

ReceiveRetry(c) ==
  /\ NoneSettled
  /\ \E r \in Responses : \E payload \in Payloads(calls[c]) :
       /\ Answerable(calls[c], r)
       /\ RetryResponse(c, r, payload)
  /\ UNCHANGED appVars

(* ------------------------------------ the api module under any client: SpecApi *)

ClientCall(c) ==
  /\ NoneSettled
  /\ \E op \in ApiOps : authorizedRequest(c, op, NoKey, FALSE)
  /\ UNCHANGED appVars

\* The caller takes the settled promise.
ClientTake(c) ==
  /\ calls[c].pc = "done"
  /\ calls' = [calls EXCEPT ![c] = FreeCall]
  /\ UNCHANGED <<themeStored, accessToken, refreshToken, issued, version, logoutPosts>>
  /\ UNCHANGED appVars

\* The client signs in (authApi.signIn) and stores the pair it is given.
ClientSignIn ==
  /\ NoneSettled
  /\ issued < MaxIssued
  /\ issued' = issued + 1
  /\ UNCHANGED version
  /\ setTokens(issued + 1, issued + 1)
  /\ UNCHANGED <<calls, logoutPosts>>
  /\ UNCHANGED appVars

ClientClear ==
  /\ NoneSettled
  /\ clear
  /\ UNCHANGED <<issued, version, calls, logoutPosts>>
  /\ UNCHANGED appVars

ClientLogout ==
  /\ NoneSettled
  /\ logoutStart
  /\ UNCHANGED <<issued, version, calls>>
  /\ UNCHANGED appVars

ClientLogoutResponse ==
  /\ NoneSettled
  /\ \E r \in Responses : logoutResponse(r)
  /\ UNCHANGED <<issued, version, calls>>
  /\ UNCHANGED appVars

(* ---------------------------------------------------------------- ThemeToggle *)

\* resolveInitialTheme: the stored mode if there is one, else the system's
\* colour scheme (prefersDark is what matchMedia reports).
resolveInitialTheme(prefersDark) ==
  IF themeStored \in ThemeModes THEN themeStored
  ELSE IF prefersDark THEN "dark" ELSE "light"

\* ThemeToggle's mount effect; it runs again whenever the view that holds the
\* toggle is replaced (sign-in view, dashboard).
ThemeMount ==
  /\ NoneSettled
  /\ \E prefersDark \in BOOLEAN :
       LET initial == resolveInitialTheme(prefersDark) IN
         /\ theme' = initial
         /\ themeApplied' = initial
  /\ UNCHANGED apiVars
  /\ UNCHANGED <<signIn, isAuthed, authError, actionError, cache, viewVars, acked, clicks>>

\* Faulty variant of toggleTheme: the mode being left is the one persisted.
toggleThemeStoresOld ==
  /\ NoneSettled
  /\ LET nextTheme == IF theme = "light" THEN "dark" ELSE "light" IN
       /\ theme' = nextTheme
       /\ themeStored' = theme
       /\ themeApplied' = nextTheme
  /\ UNCHANGED <<accessToken, refreshToken, issued, version, calls, logoutPosts>>
  /\ UNCHANGED <<signIn, isAuthed, authError, actionError, cache, viewVars, acked, clicks>>

toggleTheme ==
  /\ NoneSettled
  /\ LET nextTheme == IF theme = "light" THEN "dark" ELSE "light" IN
       /\ theme' = nextTheme
       /\ themeStored' = nextTheme
       /\ themeApplied' = nextTheme
  /\ UNCHANGED <<accessToken, refreshToken, issued, version, calls, logoutPosts>>
  /\ UNCHANGED <<signIn, isAuthed, authError, actionError, cache, viewVars, acked, clicks>>

\* A query of the cache: the payload it holds (at: the version of the account
\* data it was computed from), whether a fetch of it is running, whether it
\* has been invalidated since its payload arrived, and whether its last
\* fetch failed.
EmptyEntry ==
  [data |-> "none", at |-> 0, fetching |-> FALSE, invalidated |-> FALSE,
   error |-> FALSE]

\* The queries of the five useQuery hooks that App renders with the given
\* user-list parameters and selected user.
ObservedKeysOf(p, u) == {MeKey, StatsKey, SecurityKey, UsersKey(p), DetailsKey(u)}
ObservedKeys == ObservedKeysOf(params, selectedUserId)

Init ==
  /\ \E stored \in {NoToken, 1} :
       /\ accessToken = stored
       /\ refreshToken = stored
       /\ issued = stored
       /\ isAuthed = (stored # NoToken)
  /\ calls = [c \in Slots |-> FreeCall]
  /\ logoutPosts = 0
  /\ signIn = SignInIdle
  /\ authError = "none"
  /\ actionError = "none"
  /\ cache = [k \in ObservedKeysOf(DefaultParams, NoUser) |-> EmptyEntry]
  /\ themeStored = NoTheme
  /\ theme = "light"
  /\ themeApplied = "light"
  /\ version = 0
  /\ params = DefaultParams
  /\ selectedUserId = NoUser
  /\ acked = [u \in Users |-> 0]
  /\ clicks = 0

NextApi ==
  \/ \E c \in Slots : ClientCall(c)
  \/ \E c \in Slots : ReceiveOriginal(c)
  \/ \E c \in Slots : AnswerRefresh(c)
  \/ \E c \in Slots : ReceiveRefresh(c)
  \/ \E c \in Slots : ReceiveRetry(c)
  \/ \E c \in Slots : ClientTake(c)
  \/ ClientSignIn
  \/ ClientClear
  \/ ClientLogout
  \/ ClientLogoutResponse
  \/ ThemeMount
  \/ toggleTheme

SpecApi == Init /\ [][NextApi]_vars

(* --------------------------------------------------- the App component: Spec *)

isAdmin == cache[MeKey].data \in {"admin", "super_admin"}

\* Faulty variant of canManageUsers: any admin role qualifies.
canManageUsersAnyAdmin == cache[MeKey].data \in {"admin", "super_admin"}

canManageUsers == cache[MeKey].data = "super_admin"

\* The query function of a query key.
QueryOp(k) ==
  CASE k[1] = "auth-me" -> "me"
    [] k[1] = "admin-stats" -> "stats"
    [] k[1] = "admin-users" -> "users"
    [] k[1] = "admin-security-insights" -> "security"
    [] OTHER -> "details"

\* useQuery's enabled option of the hook that observes k.
QueryEnabled(k) ==
  CASE QueryOp(k) = "me" -> isAuthed
    [] QueryOp(k) = "details" -> isAuthed /\ isAdmin /\ k[2] # NoUser
    [] OTHER -> isAuthed /\ isAdmin

\* An active query: one a rendered hook observes and enables.
Active(k) == k \in ObservedKeys /\ QueryEnabled(k)

\* The query client starts the query function of an active query that is not
\* already fetching (on mount, on invalidation, on a retry after a failure).
QueryFetch(c, k) ==
  /\ NoneSettled
  /\ Active(k)
  /\ ~cache[k].fetching
  /\ authorizedRequest(c, QueryOp(k), k, TRUE)
  /\ cache' = [cache EXCEPT ![k].fetching = TRUE, ![k].error = FALSE]
  /\ UNCHANGED <<signIn, isAuthed, authError, actionError>>
  /\ UNCHANGED <<themeVars, viewVars, acked, clicks>>

\* One more click or submit on the dashboard.
Click ==
  /\ clicks < MaxClicks
  /\ clicks' = clicks + 1

\* Faulty variant of isPending: the button is wired to the state of the
\* mutations of the other kinds.
isPendingOtherKinds(op) ==
  \E c \in Slots : calls[c].pc # "free" /\ calls[c].op \in MutationOps \ {op}

\* toggleStatusMutation.isPending, promoteMutation.isPending,
\* demoteMutation.isPending: the mutation of that kind has been started and
\* its call has not settled.  (The mutation stays pending a little longer,
\* until the refetches that onSuccess awaits are over; the buttons of the
\* model are re-enabled no later than those of the App.)
isPending(op) ==
  \E c \in Slots : calls[c].pc # "free" /\ calls[c].op = op

\* Faulty variant of MutationHandler: the reads are invalidated when the
\* button is clicked, before the mutation has been answered.
MutationHandlerInvalidatesFirst(c, op, u) ==
  /\ NoneSettled
  /\ isAuthed /\ isAdmin
  /\ ~isPending(op)
  /\ IF ~canManageUsers
       THEN UNCHANGED apiVars
       ELSE authorizedRequest(c, op, <<u>>, FALSE)
  /\ Click
  /\ cache' = [k \in DOMAIN cache |->
                 IF k[1] \in {"admin-users", "admin-stats"}
                   THEN [cache[k] EXCEPT !.invalidated = TRUE]
                   ELSE cache[k]]
  /\ UNCHANGED <<signIn, isAuthed, authError, actionError>>
  /\ UNCHANGED <<themeVars, viewVars, acked>>

\* onToggleStatus, onPromote, onDemote: the handlers of the rows' buttons,
\* which exist while the dashboard is rendered and are disabled while the
\* mutation of their kind is pending; u is the row's user.
MutationHandler(c, op, u) ==
  /\ NoneSettled
  /\ isAuthed /\ isAdmin
  /\ ~isPending(op)
  /\ IF ~canManageUsers
       THEN UNCHANGED apiVars
       ELSE authorizedRequest(c, op, <<u>>, FALSE)
  /\ Click
  /\ UNCHANGED <<signIn, isAuthed, authError, actionError, cache>>
  /\ UNCHANGED <<themeVars, viewVars, acked>>

onToggleStatus(c, u) == MutationHandler(c, "toggle", u)

onPromote(c, u) == MutationHandler(c, "promote", u)

onDemote(c, u) == MutationHandler(c, "demote", u)

MutationErrorText(op) ==
  CASE op = "toggle" -> "Could not update user status."
    [] op = "promote" -> "Could not promote user."
    [] OTHER -> "Could not demote admin."

\* invalidateQueries({ queryKey: filter }) matches the keys that begin with
\* the filter.
MatchesFilter(filter, k) ==
  /\ Len(filter) <= Len(k)
  /\ \A i \in 1..Len(filter) : filter[i] = k[i]

\* Faulty variant of InvalidationFilters: promote and demote forget the
\* dashboard stats.
InvalidationFiltersNoStats(op, u) ==
  IF op = "toggle"
    THEN {<<"admin-users">>, StatsKey, SecurityKey, DetailsKey(u)}
    ELSE {<<"admin-users">>, DetailsKey(u)}

\* The query keys a mutation's onSuccess passes to invalidateQueries.
InvalidationFilters(op, u) ==
  IF op = "toggle"
    THEN {<<"admin-users">>, StatsKey, SecurityKey, DetailsKey(u)}
    ELSE {<<"admin-users">>, StatsKey, DetailsKey(u)}

Invalidated(k, filters) == \E f \in filters : MatchesFilter(f, k)

\* A fetch that invalidateQueries cancels: the running fetch of an active
\* matching query that already holds a payload.  The first fetch of a query
\* is left running and counts as the refetch.
Cancelled(k, filters) ==
  /\ Invalidated(k, filters)
  /\ Active(k)
  /\ cache[k].data # "none"

\* invalidateQueries for a set of filters: every matching query is marked
\* invalidated, a cancelled fetch is detached from its query (its result
\* will be dropped), and an active query is due for a fetch again even if
\* its last one failed.
InvalidateCache(filters) ==
  [k \in DOMAIN cache |->
     IF Invalidated(k, filters)
       THEN [cache[k] EXCEPT !.invalidated = TRUE,
                             !.fetching = IF Cancelled(k, filters) THEN FALSE ELSE @,
                             !.error = IF Active(k) THEN FALSE ELSE @]
       ELSE cache[k]]

CancelFetches(cs, filters) ==
  [c \in Slots |->
     IF cs[c].att /\ Cancelled(cs[c].arg, filters)
       THEN [cs[c] EXCEPT !.att = FALSE]
       ELSE cs[c]]

\* Faulty variant of QueryFailed: the payload the query held is dropped.
QueryFailedDropsData(entry) ==
  [entry EXCEPT !.fetching = FALSE, !.error = TRUE, !.data = "none"]

\* A query whose fetch failed: it is in error and keeps the payload it held.
QueryFailed(entry) ==
  [entry EXCEPT !.fetching = FALSE, !.error = TRUE]

\* The caller takes the settled promise: the query client writes the result of
\* a query it still holds, a mutation runs onSuccess or onError.
Settle(c) ==
  /\ calls[c].pc = "done"
  /\ LET rec == calls[c]
         freed == [calls EXCEPT ![c] = FreeCall] IN
       IF rec.op \in MutationOps
         THEN IF rec.outcome = "ok"
                THEN LET u == rec.arg[1]
                         filters == InvalidationFilters(rec.op, u) IN
                       /\ actionError' = "none"
                       /\ cache' = InvalidateCache(filters)
                       /\ calls' = CancelFetches(freed, filters)
                       /\ acked' = [acked EXCEPT ![u] =
                                      IF rec.result.ver > @ THEN rec.result.ver ELSE @]
                       /\ UNCHANGED clicks
                ELSE /\ actionError' = MutationErrorText(rec.op)
                     /\ calls' = freed
                     /\ UNCHANGED <<cache, acked, clicks>>
         ELSE /\ calls' = freed
              /\ cache' =
                   IF rec.att
                     THEN [cache EXCEPT ![rec.arg] =
                             IF rec.outcome = "ok"
                               THEN [data |-> rec.result.data, at |-> rec.result.ver,
                                     fetching |-> FALSE, invalidated |-> FALSE,
                                     error |-> FALSE]
                               ELSE QueryFailed(@)]
                     ELSE cache
              /\ UNCHANGED <<actionError, acked, clicks>>
  /\ UNCHANGED <<themeStored, accessToken, refreshToken, issued, version, logoutPosts>>
  /\ UNCHANGED <<signIn, isAuthed, authError>>
  /\ UNCHANGED <<themeVars, viewVars>>

\* Faulty variant of queryClientClear: the queries are emptied but the query
\* functions still running stay attached to them.
queryClientClearKeepsFetches ==
  /\ cache' = [k \in ObservedKeysOf(params, selectedUserId') |-> EmptyEntry]
  /\ UNCHANGED calls

\* queryClient.clear(): every query is removed and the result of a query
\* function still running is dropped when it arrives; the hooks of the next
\* render observe new, empty queries.
queryClientClear ==
  /\ cache' = [k \in ObservedKeysOf(params, selectedUserId') |-> EmptyEntry]
  /\ calls' = [c \in Slots |-> [calls[c] EXCEPT !.att = FALSE]]

\* onLogout after await authApi.logout() has resolved.
onLogoutResolved ==
  /\ isAuthed' = FALSE
  /\ selectedUserId' = NoUser
  /\ queryClientClear

onLogout ==
  /\ NoneSettled
  /\ isAuthed
  /\ logoutStart
  /\ IF refreshToken = NoToken
       THEN onLogoutResolved
       ELSE UNCHANGED <<isAuthed, selectedUserId, cache, calls>>
  /\ UNCHANGED <<issued, version, signIn, authError, actionError>>
  /\ UNCHANGED <<themeVars, params, acked, clicks>>

LogoutSettles ==
  /\ NoneSettled
  /\ \E r \in Responses :
       /\ logoutResponse(r)
       /\ IF r = "ok"
            THEN onLogoutResolved
            ELSE UNCHANGED <<isAuthed, selectedUserId, cache, calls>>
  /\ UNCHANGED <<issued, version, signIn, authError, actionError>>
  /\ UNCHANGED <<themeVars, params, acked, clicks>>

onSignIn ==
  /\ NoneSettled
  /\ ~isAuthed
  /\ signIn.pc = "idle"
  /\ authError' = "none"
  /\ signIn' = [SignInIdle EXCEPT !.pc = "pending"]
  /\ UNCHANGED apiVars
  /\ UNCHANGED <<isAuthed, actionError, cache>>
  /\ UNCHANGED <<themeVars, viewVars, acked, clicks>>

\* The backend accepts the credentials and issues a pair for the account,
\* whatever its role; its answer is now on its way to the client.
BackendSignIn ==
  /\ NoneSettled
  /\ signIn.pc = "pending"
  /\ issued < MaxIssued
  /\ issued' = issued + 1
  /\ UNCHANGED version
  /\ \E role \in Roles :
       signIn' = [pc |-> "answered", role |-> role,
                  pair |-> [accessToken |-> issued + 1, refreshToken |-> issued + 1]]
  /\ UNCHANGED <<themeStored, accessToken, refreshToken, calls, logoutPosts>>
  /\ UNCHANGED <<isAuthed, authError, actionError, cache>>
  /\ UNCHANGED <<themeVars, viewVars, acked, clicks>>

\* The cache once App has rendered with parameters p and selected user u:
\* the queries its hooks observe exist.
ReRendered(ch, p, u) ==
  [k \in DOMAIN ch \cup ObservedKeysOf(p, u) |->
     IF k \in DOMAIN ch THEN ch[k] ELSE EmptyEntry]

\* Faulty variant of signInOnSuccess: the role of the response is not checked.
signInOnSuccessAnyRole(role, pair) ==
  /\ setTokens(pair.accessToken, pair.refreshToken)
  /\ authError' = "none"
  /\ actionError' = "none"
  /\ isAuthed' = TRUE
  /\ params' = DefaultParams
  /\ selectedUserId' = NoUser
  /\ cache' = ReRendered(InvalidateCache({NoKey}), DefaultParams, NoUser)

\* signInMutation.onSuccess with the role and the pair of the response.
signInOnSuccess(role, pair) ==
  IF role # "admin" /\ role # "super_admin"
    THEN /\ clear
         /\ authError' = "Your account is not an admin account."
         /\ UNCHANGED <<isAuthed, actionError, params, selectedUserId, cache>>
    ELSE /\ setTokens(pair.accessToken, pair.refreshToken)
         /\ authError' = "none"
         /\ actionError' = "none"
         /\ isAuthed' = TRUE
         /\ params' = DefaultParams
         /\ selectedUserId' = NoUser
         /\ cache' = ReRendered(InvalidateCache({NoKey}), DefaultParams, NoUser)

signInOnError ==
  /\ authError' = "Sign in failed. Check credentials and try again."
  /\ UNCHANGED <<themeStored, accessToken, refreshToken, isAuthed, actionError>>
  /\ UNCHANGED <<viewVars, cache>>

\* POST /auth/signin settles.
SignInSettles ==
  /\ NoneSettled
  /\ signIn.pc # "idle"
  /\ signIn' = SignInIdle
  /\ \E r \in Responses :
       IF r = "ok"
         THEN /\ signIn.pc = "answered"
              /\ signInOnSuccess(signIn.role, signIn.pair)
         ELSE signInOnError
  /\ UNCHANGED <<issued, version, calls, logoutPosts>>
  /\ UNCHANGED <<themeVars, acked, clicks>>

Next ==
  \/ \E c \in AppSlots : QueryFetch(c, MeKey)
  \/ \E c \in Slots : ReceiveOriginal(c)
  \/ \E c \in Slots : AnswerRefresh(c)
  \/ \E c \in Slots : ReceiveRefresh(c)
  \/ \E c \in Slots : ReceiveRetry(c)
  \/ \E c \in Slots : Settle(c)
  \/ onSignIn
  \/ BackendSignIn
  \/ SignInSettles
  \/ onLogout
  \/ LogoutSettles

Spec == Init /\ [][Next]_vars

(* ------------------------------------------- the dashboard: SpecDashboard *)

\* The dashboard is what App renders for a signed-in admin.
DashboardView == isAuthed /\ isAdmin

\* The rows and the pagination are rendered from the user list's payload.
UsersShown == cache[UsersKey(params)].data # "none"

\* App renders with new user-list parameters and a new selected user: the
\* hooks observe the queries of the new keys, creating those that are missing.
Render(p, u) ==
  /\ NoneSettled
  /\ DashboardView
  /\ \/ UsersKey(p) \in DOMAIN cache
     \/ Cardinality({k \in DOMAIN cache : QueryOp(k) = "users"}) < MaxUserLists
  /\ params' = p
  /\ selectedUserId' = u
  /\ cache' = ReRendered(cache, p, u)
  /\ Click
  /\ UNCHANGED apiVars
  /\ UNCHANGED <<signIn, isAuthed, authError, actionError, themeVars, acked>>

onSearchSubmit ==
  \E text \in Searches :
    Render([params EXCEPT !.page = 1, !.search = text], selectedUserId)

\* Faulty variant of onRoleFilterChange: the page is left as it is.
onRoleFilterChangeKeepsPage ==
  \E v \in RoleFilters \ {params.role} :
    Render([params EXCEPT !.role = v], selectedUserId)

onRoleFilterChange ==
  \E v \in RoleFilters \ {params.role} :
    Render([params EXCEPT !.page = 1, !.role = v], selectedUserId)

onStatusFilterChange ==
  \E v \in StatusFilters \ {params.status} :
    Render([params EXCEPT !.page = 1, !.status = v], selectedUserId)

onSortByChange ==
  \E v \in SortBys \ {params.sortBy} :
    Render([params EXCEPT !.page = 1, !.sortBy = v], selectedUserId)

onSortOrderChange ==
  \E v \in SortOrders \ {params.sortOrder} :
    Render([params EXCEPT !.page = 1, !.sortOrder = v], selectedUserId)

onResetFilters ==
  Render([params EXCEPT !.page = 1, !.role = "all", !.status = "all",
                        !.sortBy = "createdAt", !.sortOrder = "desc"],
         selectedUserId)

\* Previous and Next are rendered with the pagination of the list shown.
onPreviousPage ==
  /\ UsersShown
  /\ params.page > 1
  /\ Render([params EXCEPT !.page = IF @ - 1 > 1 THEN @ - 1 ELSE 1], selectedUserId)

onNextPage ==
  /\ UsersShown
  /\ params.page < MaxPage
  /\ Render([params EXCEPT !.page = IF @ + 1 < MaxPage THEN @ + 1 ELSE MaxPage],
            selectedUserId)

\* A click on the row of user u.
onSelectUser(u) ==
  /\ UsersShown
  /\ Render(params, u)

\* What the backend answers while the session is valid: the data, or a
\* failure that is not a 401 (the pipeline treats every such failure alike).
DashboardResponses == {"ok", "E500"}

\* While the dashboard is used the session stays valid: the backend answers
\* a privileged call with its data, an error status other than 401, or not at
\* all, so authorizedRequest ends with the first response.
ReceiveAnswer(c) ==
  /\ NoneSettled
  /\ \E r \in DashboardResponses : \E payload \in Payloads(calls[c]) :
       /\ Answerable(calls[c], r)
       /\ OriginalResponse(c, r, payload)
  /\ UNCHANGED appVars

\* The Refresh button: queryClient.invalidateQueries() with no filter; every
\* active query is fetched again, those whose last fetch failed included.
onRefresh ==
  /\ NoneSettled
  /\ DashboardView
  /\ cache' = InvalidateCache({NoKey})
  /\ calls' = CancelFetches(calls, {NoKey})
  /\ UNCHANGED <<themeStored, accessToken, refreshToken, issued, version, logoutPosts>>
  /\ Click
  /\ UNCHANGED <<signIn, isAuthed, authError, actionError, themeVars, viewVars, acked>>

\* A query is fetched when it is observed without a payload or has been
\* invalidated, unless its last fetch failed.
NeedsFetch(k) ==
  /\ ~cache[k].error
  /\ cache[k].data = "none" \/ cache[k].invalidated

\* The query client starts a fetch in the same task as the render or the
\* invalidation that makes it due.
FetchDue ==
  /\ \E c \in Slots : calls[c].pc = "free"
  /\ \E k \in ObservedKeys : Active(k) /\ NeedsFetch(k) /\ ~cache[k].fetching

\* The dashboard as a signed-in admin or super admin sees it once its reads
\* have loaded.
InitDashboard ==
  /\ accessToken = 1
  /\ refreshToken = 1
  /\ issued = 1
  /\ isAuthed = TRUE
  /\ calls = [c \in Slots |-> FreeCall]
  /\ logoutPosts = 0
  /\ signIn = SignInIdle
  /\ authError = "none"
  /\ actionError = "none"
  /\ \E role \in {"admin", "super_admin"} :
       cache = [k \in ObservedKeysOf(DefaultParams, NoUser) |->
                  IF k = MeKey THEN [EmptyEntry EXCEPT !.data = role]
                  ELSE IF k = DetailsKey(NoUser) THEN EmptyEntry
                  ELSE [EmptyEntry EXCEPT !.data = "data"]]
  /\ themeStored = NoTheme
  /\ theme = "light"
  /\ themeApplied = "light"
  /\ version = 0
  /\ params = DefaultParams
  /\ selectedUserId = NoUser
  /\ acked = [u \in Users |-> 0]
  /\ clicks = 0

NextDashboard ==
  \/ \E c \in Slots : \E k \in ObservedKeys : NeedsFetch(k) /\ QueryFetch(c, k)
  \/ \E c \in Slots : Settle(c)
  \/ ~FetchDue /\ onRefresh
  \/ \E c \in Slots : \E u \in Users :
       ~FetchDue /\ UsersShown /\ onToggleStatus(c, u)
  \/ \E c \in Slots : \E u \in Users :
       ~FetchDue /\ UsersShown /\ onPromote(c, u)
  \/ \E c \in Slots : \E u \in Users :
       ~FetchDue /\ UsersShown /\ onDemote(c, u)
  \/ \E c \in Slots : ~FetchDue /\ ReceiveAnswer(c)
  \/ \E c \in Slots : ~FetchDue /\ BackendApplies(c)
  \/ ~FetchDue /\ onSearchSubmit
  \/ ~FetchDue /\ onRoleFilterChange
  \/ ~FetchDue /\ onStatusFilterChange
  \/ ~FetchDue /\ onSortByChange
  \/ ~FetchDue /\ onSortOrderChange
  \/ ~FetchDue /\ onResetFilters
  \/ ~FetchDue /\ onPreviousPage
  \/ ~FetchDue /\ onNextPage
  \/ \E u \in Users : ~FetchDue /\ onSelectUser(u)

SpecDashboard == InitDashboard /\ [][NextDashboard]_vars

(* ------------------------------- the list controls across sessions: SpecFilters *)

\* The list controls of the dashboard, sign-out and sign-in: the operator
\* filters and pages the user list, signs out and signs in again.  Of the
\* reads, those the controls depend on are followed (the current user and
\* the user list), one at a time, and the session stays valid.
NextFilters ==
  \/ \E c \in AppSlots : \E k \in {MeKey, UsersKey(params)} :
       NeedsFetch(k) /\ QueryFetch(c, k)
  \/ \E c \in AppSlots : ReceiveAnswer(c)
  \/ \E c \in AppSlots : Settle(c)
  \/ onSearchSubmit
  \/ onRoleFilterChange
  \/ onStatusFilterChange
  \/ onSortByChange
  \/ onSortOrderChange
  \/ onResetFilters
  \/ onPreviousPage
  \/ onNextPage
  \/ onLogout
  \/ LogoutSettles
  \/ onSignIn
  \/ BackendSignIn
  \/ SignInSettles

SpecFilters == InitDashboard /\ [][NextFilters]_vars

(* ------------------------------------------------------------------ claims *)

Count(seq, k) == Cardinality({i \in DOMAIN seq : seq[i] = k})

CacheCleared ==
  \A k \in DOMAIN cache : cache[k].data = "none" /\ ~cache[k].fetching

NoStoredPair == accessToken = NoToken /\ refreshToken = NoToken

\* C1: whenever a sign-out ends (the POST /auth/logout it awaited has settled,
\* with success, an error status, a network fault or a timeout), both stored
\* tokens are removed, the UI is signed out and the query cache is empty.
C1_SignOutAlwaysSignsOut ==
  [][logoutPosts' < logoutPosts =>
       (NoStoredPair' /\ ~isAuthed' /\ CacheCleared')]_vars

\* C2: an invocation whose first attempt got a 401 and whose refresh exchange
\* succeeded has made exactly the calls original, refresh, retry in that order;
\* the retry carries the access token the refresh returned; when the refresh
\* succeeds the stored pair becomes the pair it returned; and when the retry
\* succeeds the caller gets its data and no error.
C2_State ==
  \A c \in Slots :
    LET rec == calls[c] IN
      (Len(rec.resps) >= 2 /\ rec.resps[1] = "E401" /\ rec.resps[2] = "ok") =>
        /\ rec.pc \in {"retry", "done"}
        /\ rec.sent = <<"original", "refresh", "retry">>
        /\ rec.pc = "retry" =>
             /\ rec.refreshed.accessToken # NoToken
             /\ rec.inflight.kind = "retry"
             /\ rec.inflight.token = rec.refreshed.accessToken
        /\ rec.pc = "done" =>
             /\ Len(rec.resps) = 3
             /\ rec.resps[3] = "ok" =>
                  (rec.outcome = "ok" /\ rec.result.data = "data")

C2_Step ==
  \A c \in Slots :
    (calls[c].pc = "refresh" /\ calls'[c].pc = "retry") =>
      /\ calls'[c].refreshed = calls[c].refreshed
      /\ accessToken' = calls[c].refreshed.accessToken
      /\ refreshToken' = calls[c].refreshed.refreshToken
      /\ refreshToken' # NoToken

C2_RefreshThenRetry == []C2_State /\ [][C2_Step]_vars

\* C2 witness: a call that got 401, refreshed, retried and succeeded.
C2_Witness ==
  \E c \in Slots :
    /\ calls[c].pc = "done"
    /\ calls[c].resps = <<"E401", "ok", "ok">>
    /\ calls[c].outcome = "ok"

\* C3: in one invocation each of original, refresh and retry is sent at most
\* once; a retry is sent only after a successful refresh; a successful first
\* response ends the invocation after exactly one call; a failed retry (a
\* second 401 included) is rethrown as it is, with nothing sent after it.
C3_AtMostOnceEach ==
  \A c \in Slots :
    LET rec == calls[c] IN
      /\ Count(rec.sent, "original") <= 1
      /\ Count(rec.sent, "refresh") <= 1
      /\ Count(rec.sent, "retry") <= 1
      /\ Count(rec.sent, "retry") = 1 =>
           /\ rec.sent = <<"original", "refresh", "retry">>
           /\ Len(rec.resps) >= 2
           /\ rec.resps[2] = "ok"
      /\ (Len(rec.resps) >= 1 /\ rec.resps[1] = "ok") =>
           /\ rec.pc = "done"
           /\ rec.sent = <<"original">>
           /\ rec.outcome = "ok"
      /\ (Len(rec.resps) >= 3 /\ rec.resps[3] # "ok") =>
           /\ rec.pc = "done"
           /\ rec.outcome = rec.resps[3]
           /\ Len(rec.sent) = 3
           /\ Len(rec.resps) = 3

\* C3 witness: the retry itself got a 401 and the invocation has ended.
C3_Witness ==
  \E c \in Slots :
    /\ calls[c].pc = "done"
    /\ calls[c].resps = <<"E401", "ok", "E401">>

\* C4: when the caller of a privileged call is handed a session-expired
\* failure (a 401 followed by a missing refresh token or by a failed refresh
\* exchange), the stored pair is deleted and the UI is signed out.
SessionExpired(rec) ==
  /\ rec.pc = "done"
  /\ Len(rec.resps) >= 1
  /\ rec.resps[1] = "E401"
  /\ \/ rec.outcome = "MissingRefreshToken"
     \/ Len(rec.resps) = 2 /\ rec.resps[2] # "ok"

C4_SessionExpiredSignsOut ==
  [][\A c \in Slots :
       (SessionExpired(calls[c]) /\ calls'[c].pc = "free") =>
         (NoStoredPair' /\ ~isAuthed')]_vars

\* C5: a credential pair is stored exactly when the UI is signed in.
C5_PairIffSignedIn ==
  (accessToken # NoToken /\ refreshToken # NoToken) <=> isAuthed

\* C6: when the sign-in response of a non-privileged account is handled, no
\* token is left in storage, the UI is not signed in, and the authorization
\* error is reported (a response that never arrives is a failed sign-in).
C6_NonAdminSignInStoresNothing ==
  [][(/\ signIn.pc = "answered"
      /\ signIn.role \notin {"admin", "super_admin"}
      /\ signIn'.pc = "idle"
      /\ authError' # "Sign in failed. Check credentials and try again.") =>
       /\ NoStoredPair'
       /\ ~isAuthed'
       /\ authError' = "Your account is not an admin account."]_vars

\* C6 witness: a non-privileged sign-in has been rejected.
C6_Witness ==
  /\ authError = "Your account is not an admin account."
  /\ signIn.pc = "idle"
  /\ issued > 0

\* C7: a 401 that arrives while no refresh token is stored ends the call at
\* once with the missing-refresh-token error; only the original was sent.
C7_NoRefreshTokenFailsAtOnce ==
  [][\A c \in Slots :
       (/\ calls[c].pc = "original"
        /\ calls'[c].resps = <<"E401">>
        /\ refreshToken = NoToken) =>
         /\ calls'[c].pc = "done"
         /\ calls'[c].outcome = "MissingRefreshToken"
         /\ calls'[c].sent = <<"original">>
         /\ calls'[c].inflight = NoRequest]_vars

\* C7 witness: a call has ended that way.
C7_Witness ==
  \E c \in Slots :
    /\ calls[c].pc = "done"
    /\ calls[c].resps = <<"E401">>
    /\ calls[c].outcome = "MissingRefreshToken"

\* C8: the first attempt's response starts a refresh only if it is a 401; any
\* other failure ends the call with that same error, after the one call, and
\* leaves the stored pair as it was.
C8_OnlyUnauthorizedRefreshes ==
  [][\A c \in Slots :
       (calls[c].pc = "original" /\ calls'[c].pc # "original") =>
         LET r == calls'[c].resps[1] IN
           /\ calls'[c].pc = "refresh" => r = "E401"
           /\ r \notin {"ok", "E401"} =>
                /\ calls'[c].pc = "done"
                /\ calls'[c].outcome = r
                /\ calls'[c].sent = <<"original">>
                /\ accessToken' = accessToken
                /\ refreshToken' = refreshToken]_vars

\* C8 witness: a first attempt timed out and the call ended with the timeout.
C8_Witness ==
  \E c \in Slots :
    /\ calls[c].pc = "done"
    /\ calls[c].resps = <<"ETIMEOUT">>
    /\ calls[c].outcome = "ETIMEOUT"

\* C9: a privileged call started while no access token is stored ends at once
\* with the missing-access-token error, sends nothing, and leaves the stored
\* tokens as they were.
C9_NoAccessTokenNoCall ==
  [][\A c \in Slots :
       (calls[c].pc = "free" /\ calls'[c].pc # "free" /\ accessToken = NoToken) =>
         /\ calls'[c].pc = "done"
         /\ calls'[c].outcome = "MissingAccessToken"
         /\ calls'[c].sent = <<>>
         /\ calls'[c].inflight = NoRequest
         /\ accessToken' = accessToken
         /\ refreshToken' = refreshToken]_vars

\* C9 witness: a call has ended that way.
C9_Witness ==
  \E c \in Slots :
    /\ calls[c].pc = "done"
    /\ calls[c].outcome = "MissingAccessToken"

\* C10: canManageUsers becomes true only when a current-user read returns
\* super_admin, a read returning any other role makes it false, and no
\* mutation call is started while it is false.
MeReadSettles(c) ==
  /\ calls[c].pc = "done"
  /\ calls[c].op = "me"
  /\ calls[c].att
  /\ calls'[c].pc = "free"

C10_Step ==
  /\ (canManageUsers' /\ ~canManageUsers) =>
       \E c \in Slots :
         MeReadSettles(c) /\ calls[c].outcome = "ok" /\ calls[c].result.data = "super_admin"
  /\ \A c \in Slots :
       (MeReadSettles(c) /\ calls[c].outcome = "ok" /\ calls[c].result.data # "super_admin") =>
         ~canManageUsers'
  /\ \A c \in Slots :
       (calls[c].pc = "free" /\ calls'[c].op \in MutationOps) => canManageUsers

C10_OnlySuperAdminMutates == [][C10_Step]_vars

\* C10 witness: an admin that is not super_admin sees the dashboard and has
\* clicked a row's mutation button: no call was made.
C10_Witness ==
  /\ isAuthed
  /\ cache[MeKey].data = "admin"
  /\ clicks = 1
  /\ params = DefaultParams
  /\ selectedUserId = NoUser
  /\ \A k \in DOMAIN cache : ~cache[k].invalidated
  /\ \A c \in Slots : calls[c].pc = "free"

\* C14: while the UI is signed out the query cache holds no payload and no
\* fetch, whatever responses arrive for reads started before the logout, and
\* a sign-in starts from an empty cache.
C14_State == ~isAuthed => CacheCleared

C14_LogoutLeavesCacheEmpty ==
  []C14_State /\ [][(~isAuthed /\ isAuthed') => CacheCleared']_vars

\* C14 witness: signed out, and the successful response of a read that was
\* started before the logout has just arrived.
C14_Witness ==
  /\ ~isAuthed
  /\ \E c \in Slots :
       /\ calls[c].pc = "done"
       /\ calls[c].op \in QueryOps
       /\ calls[c].outcome = "ok"

\* C18: while the UI is signed out and no pair is stored, a pair is stored
\* again only by a successful privileged sign-in.
C18_NoPairAfterLogout ==
  [][(~isAuthed /\ NoStoredPair /\ ~NoStoredPair') => isAuthed']_vars

\* C19: no two invocations have a refresh exchange in flight that carries the
\* same refresh token, and once every invocation has ended the stored pair,
\* if there is one, is the pair the backend issued last.
C19_OneRefreshPerToken ==
  /\ \A c, d \in Slots :
       (/\ c # d
        /\ calls[c].inflight.kind = "refresh"
        /\ calls[d].inflight.kind = "refresh") =>
         calls[c].inflight.token # calls[d].inflight.token
  /\ ((\A c \in Slots : calls[c].pc = "free") /\ accessToken # NoToken) =>
       (accessToken = issued /\ refreshToken = issued)

\* C20: the Unauthorized view (signed in, not an admin) is rendered only when
\* the current-user read has returned a role other than admin and super_admin.
UnauthorizedView == isAuthed /\ ~isAdmin

C20_UnauthorizedOnlyForNonAdmin ==
  UnauthorizedView => cache[MeKey].data \in (Roles \ {"admin", "super_admin"})

\* C17: a step that changes a token key, a call or a logout (sign-in, refresh,
\* logout, every pipeline step) leaves the stored theme as it was; a step that
\* changes the stored theme stores the theme it applies to the page; and a
\* stored theme is always the theme applied to the page.
\* The cached reads a successful mutation of kind op for user u is declared
\* to invalidate.
Declared(op, u, k) ==
  \/ k[1] = "admin-users"
  \/ k = <<"admin-stats">>
  \/ k = <<"admin-security-insights">> /\ op = "toggle"
  \/ k = <<"admin-user-details", u>>

C11_Step ==
  \A c \in Slots :
    (calls[c].pc = "done" /\ calls[c].op \in MutationOps /\ calls[c].outcome = "ok")
      => /\ DOMAIN cache' = DOMAIN cache
         /\ \A k \in DOMAIN cache :
              /\ cache'[k].invalidated =
                   (cache[k].invalidated \/ Declared(calls[c].op, calls[c].arg[1], k))
              /\ cache'[k].data = cache[k].data

\* C11: when a mutation's success is handled, the cached reads that become
\* invalidated are exactly the declared ones: every user list, the stats,
\* the security insights for a toggle only, and the detail of the mutated
\* user; no other entry (another user's detail, the current user) is marked.
C11_InvalidatesDeclaredSet == [][C11_Step]_vars

\* A promote of user 1 has been handled while user 2's detail was cached:
\* lists and stats are invalidated, user 2's detail, the security insights
\* and the current user are not.
C11_Witness ==
  /\ acked[1] = 1
  /\ selectedUserId = 2
  /\ clicks = 2
  /\ cache[DetailsKey(2)].data # "none"
  /\ ~cache[DetailsKey(2)].invalidated
  /\ cache[StatsKey].invalidated
  /\ cache[UsersKey(params)].invalidated
  /\ ~cache[SecurityKey].invalidated
  /\ ~cache[MeKey].invalidated

MutationSucceeded(c) ==
  calls[c].pc = "done" /\ calls[c].op \in MutationOps /\ calls[c].outcome = "ok"

MutationFailed(c) ==
  calls[c].pc = "done" /\ calls[c].op \in MutationOps /\ calls[c].outcome # "ok"

C12_Step ==
  /\ (\E k \in DOMAIN cache : ~cache[k].invalidated /\ cache'[k].invalidated)
       => \/ \E c \in Slots : MutationSucceeded(c)
          \/ onRefresh
  /\ \A c \in Slots :
       MutationFailed(c)
         => /\ cache' = cache
            /\ actionError' # "none"
            /\ calls' = [calls EXCEPT ![c] = FreeCall]
            /\ UNCHANGED <<isAuthed, authError, viewVars, accessToken, refreshToken>>

\* C12: a cached read becomes invalidated only in the step that handles a
\* mutation's success response (or on the operator's Refresh), never while
\* a mutation is pending; handling a failed mutation leaves the cache as it
\* is and only sets the action error.
C12_InvalidationOnlyAfterSuccess == [][C12_Step]_vars

\* A mutation has been applied by the backend but its response was a
\* failure: the error is shown and nothing is invalidated.
C12_Witness ==
  /\ actionError # "none"
  /\ version = 1
  /\ \A c \in Slots : calls[c].pc = "free"
  /\ \A k \in DOMAIN cache : ~cache[k].invalidated
  /\ cache[StatsKey].data # "none"

\* The newest mutation the App has seen succeed among those that a read of
\* k must reflect: any user's for the lists and the stats, the user's own
\* for a detail.
MustReflect(k) ==
  CASE k[1] \in {"admin-users", "admin-stats"} ->
         CHOOSE v \in {acked[u] : u \in Users} : \A u \in Users : acked[u] <= v
    [] k[1] = "admin-user-details" /\ k[2] \in Users -> acked[k[2]]
    [] OTHER -> 0

C13_Step ==
  /\ \A c \in Slots :
       (/\ calls[c].pc = "done"
        /\ calls[c].op \in QueryOps
        /\ calls[c].outcome = "ok"
        /\ calls[c].att
        /\ Active(calls[c].arg))
         => calls[c].result.ver >= MustReflect(calls[c].arg)
  /\ \A c \in Slots :
       (calls[c].pc = "done" /\ calls[c].op \in MutationOps)
         => \A k \in DOMAIN cache : cache'[k].data = cache[k].data

\* C13: once a mutation's success has been handled, the payload the query
\* client writes into an observed user list, the stats or the mutated user's
\* detail was computed from the backend's state after that mutation; and
\* handling a mutation's result writes no payload.
C13_NextReadIsPostMutation == [][C13_Step]_vars

ReadFailed(c) ==
  calls[c].pc = "done" /\ calls[c].op \in QueryOps /\ calls[c].outcome # "ok"

ReadSucceeded(c) ==
  calls[c].pc = "done" /\ calls[c].op \in QueryOps /\ calls[c].outcome = "ok"

\* The payload the dashboard displays for an observed query.
Displayed(k) == IF DashboardView /\ Active(k) THEN cache[k].data ELSE "none"

C15_Step ==
  /\ \A c \in Slots :
       ReadFailed(c)
         => /\ \A k \in DOMAIN cache : Displayed(k)' = Displayed(k)
            /\ \A k \in DOMAIN cache \ {calls[c].arg} : cache'[k] = cache[k]
            /\ UNCHANGED <<isAuthed, viewVars>>
  /\ \A c \in Slots :
       (/\ ReadSucceeded(c)
        /\ calls[c].att
        /\ Active(calls[c].arg)
        /\ calls[c].op # "me"
        /\ \E k \in DOMAIN cache : cache[k].error)
         => \A k \in DOMAIN cache :
              k = calls[c].arg => Displayed(k)' = calls[c].result.data

\* C15: when a read fails, every panel keeps displaying the payload it had
\* (the failed one included), no other query changes and the view is not
\* replaced; and a read that succeeds while another one is in error is
\* displayed.
C15_FailedReadBlanksNothing == [][C15_Step]_vars

\* The current-user read has failed on a refetch; the dashboard is still
\* shown, and the user list fetched after that failure is displayed.
C15_Witness ==
  /\ DashboardView
  /\ cache[MeKey].error
  /\ clicks = 1
  /\ \A c \in Slots : calls[c].pc = "free"
  /\ Displayed(UsersKey(params)) # "none"
  /\ ~cache[UsersKey(params)].invalidated
  /\ ~cache[UsersKey(params)].error

ListKeys(ks) == {k \in ks : k[1] = "admin-users"}

\* The user-list key that App observes is the array of the six parameters.
C16_State ==
  ListKeys(ObservedKeys) =
    {<<"admin-users", params.page, params.search, params.role, params.status,
       params.sortBy, params.sortOrder>>}

C16_Step ==
  /\ params' = params => ListKeys(DOMAIN cache') = ListKeys(DOMAIN cache)
  /\ params' # params =>
       \A k \in ListKeys(ObservedKeys') :
         /\ k \notin ObservedKeys
         /\ k \in DOMAIN cache => cache'[k] = cache[k]
         /\ k \notin DOMAIN cache =>
              /\ cache'[k] = EmptyEntry
              /\ (\E c \in Slots : calls'[c].pc = "free") => FetchDue'

\* C16: the observed user-list key is made of the six parameters and of
\* nothing else: a step that keeps the parameters adds no list query, a step
\* that changes one of them observes another key, which shares the query
\* already cached for that tuple or, if there is none, is a miss that is
\* fetched.
C16_ListKeyIsParams == []C16_State /\ [][C16_Step]_vars

\* The parameters were changed and changed back: the first tuple's query is
\* shared (its payload is still there), the second one has its own query.
C16_Witness ==
  /\ clicks = 2
  /\ params = DefaultParams
  /\ Cardinality(ListKeys(DOMAIN cache)) = 2
  /\ cache[UsersKey(params)].data # "none"
  /\ ~cache[UsersKey(params)].invalidated

InFlight(op) == {c \in Slots : calls[c].pc # "free" /\ calls[c].op = op}

\* C21: at most one toggle-status call, one promote call and one demote call
\* is in flight at any time.
C21_OneMutationPerKind ==
  \A op \in MutationOps : Cardinality(InFlight(op)) <= 1

\* Two mutations of different kinds overlap: both calls are at the backend.
C21_Witness ==
  \E op1, op2 \in MutationOps :
    /\ op1 # op2
    /\ \E c \in InFlight(op1) : calls[c].pc = "original"
    /\ \E c \in InFlight(op2) : calls[c].pc = "original"

\* The user-list parameters other than the page.
Filters(p) == <<p.search, p.role, p.status, p.sortBy, p.sortOrder>>

C22_State == params.page >= 1

C22_Step == Filters(params)' # Filters(params) => params'.page = 1

\* C22: a step that changes the search text, a filter or the sorting (a
\* submit, a select, Reset, a successful sign-in) leaves the page at 1, and
\* the page is never below 1.
C22_PageResetOnFilterChange == []C22_State /\ [][C22_Step]_vars

\* The operator went to page 2 of the unfiltered list and then chose a role
\* filter: the list observed is page 1 of the filtered one.
C22_Witness ==
  /\ clicks = 2
  /\ params.page = 1
  /\ params.role # "all"
  /\ \E k \in DOMAIN cache : k[1] = "admin-users" /\ k[2] = 2 /\ k[4] = "all"

C17_State == themeStored \in ThemeModes => themeStored = themeApplied

C17_Step ==
  /\ (\/ accessToken' # accessToken
      \/ refreshToken' # refreshToken
      \/ calls' # calls
      \/ logoutPosts' # logoutPosts
      \/ issued' # issued) => themeStored' = themeStored
  /\ themeStored' # themeStored =>
       /\ themeStored' = themeApplied'
       /\ themeStored' = theme'

C17_ThemeSurvivesLogout == []C17_State /\ [][C17_Step]_vars

\* C17 witness: a theme was chosen while signed in and is still stored, and
\* applied, after the tokens have been removed by a logout.
C17_Witness ==
  /\ themeStored = "dark"
  /\ themeApplied = "dark"
  /\ NoStoredPair
  /\ issued > 0

====
